---- MODULE Spec2Model ----
(***************************************************************************)
(* A model of app.py, the article analyzer: the helpers extract_body,      *)
(* find_author and extract_links, the Domain computation, and the batch    *)
(* run of main (the per-URL loop, the DataFrame, the Overall Score merge). *)
(*                                                                         *)
(* Strings whose characters matter (hrefs, URLs) are sequences of          *)
(* one-character strings.  Floats are exact rationals plus NaN, which is   *)
(* also pandas' marker of a missing cell.                                  *)
(***************************************************************************)
EXTENDS Integers, Sequences, FiniteSets, TLC

VARIABLES
    pc,        \* where the modelled code stands
    url,       \* SpecDomain: the URL handed to urlparse
    domain,    \* SpecDomain: the value of `domain` (line 142)
    soup,      \* SpecLocate / SpecAuthor: the parsed document
    ret,       \* the value a helper returned (or the exception it raised)
    seen,      \* SpecLinks: the anchors the for loop has visited
    links,     \* SpecLinks: the local set `links`
    urls,      \* Spec: the list `urls` (line 135)
    weights,   \* Spec: the five weights after lines 123-129
    results,   \* Spec: the list `results`
    df,        \* Spec: the DataFrame `df`
    df_norm    \* Spec: the DataFrame `df_norm`

vars == <<pc, url, domain, soup, ret, seen, links, urls, weights, results, df,
          df_norm>>

\* The value of a variable the specification at hand does not use.
Unused == "unused"

\* None, as a helper's return value.
None == [kind |-> "None"]

----------------------------------------------------------------------------
(* Strings *)

MaxHrefLen == 2
MaxUrlLen == 7
MaxAnchors == 2

SeqsUpTo(S, n) == UNION {[1..k -> S] : k \in 0..n}

StartsWith(s, p) ==
    /\ Len(s) >= Len(p)
    /\ SubSeq(s, 1, Len(p)) = p

\* str.strip(): leading and trailing whitespace removed.
RECURSIVE lstrip(_)
lstrip(s) ==
    IF s # <<>> /\ Head(s) = " " THEN lstrip(Tail(s)) ELSE s

RECURSIVE rstrip(_)
rstrip(s) ==
    IF s # <<>> /\ s[Len(s)] = " " THEN rstrip(SubSeq(s, 1, Len(s) - 1)) ELSE s

strip(s) == rstrip(lstrip(s))

\* str.replace(old, ''): every non-overlapping occurrence, left to right.
RECURSIVE replace(_, _)
replace(s, old) ==
    IF Len(s) < Len(old) THEN s
    ELSE IF StartsWith(s, old) THEN replace(SubSeq(s, Len(old) + 1, Len(s)), old)
    ELSE <<Head(s)>> \o replace(Tail(s), old)

Www == <<"w", "w", "w", ".">>

----------------------------------------------------------------------------
(* urlparse(url).netloc and the Domain (lines 141-142) *)

Scheme == "https:"
UrlChars == {"w", ".", "a", "/"}

\* The index of the first "/" of s at or after position i, or Len(s)+1.
RECURSIVE FirstSlash(_, _)
FirstSlash(s, i) ==
    IF i > Len(s) THEN Len(s) + 1
    ELSE IF s[i] = "/" THEN i
    ELSE FirstSlash(s, i + 1)

\* urlparse(url).netloc: after the scheme, the text between a leading "//"
\* and the next "/"; empty when the rest does not begin with "//".
netloc(u) ==
    LET rest == IF u # <<>> /\ Head(u) = Scheme THEN Tail(u) ELSE u
    IN  IF StartsWith(rest, <<"/", "/">>)
        THEN SubSeq(rest, 3, FirstSlash(rest, 3) - 1)
        ELSE <<>>

\* domain = parsed.netloc.replace('www.', '')
Domain(u) == replace(netloc(u), Www)

Urls ==
    LET rests == SeqsUpTo(UrlChars, MaxUrlLen)
    IN  rests \cup {<<Scheme>> \o r : r \in rests}

InitDomain ==
    /\ pc = "urlparse"
    /\ url \in Urls
    /\ domain = Unused
    /\ soup = Unused /\ ret = Unused /\ seen = Unused /\ links = Unused
    /\ urls = Unused /\ weights = Unused /\ results = Unused /\ df = Unused
    /\ df_norm = Unused

ComputeDomain ==
    /\ pc = "urlparse"
    /\ domain' = Domain(url)
    /\ pc' = "done"
    /\ UNCHANGED <<url, soup, ret, seen, links, urls, weights, results, df,
                   df_norm>>

NextDomain == ComputeDomain

SpecDomain == InitDomain /\ [][NextDomain]_vars

\* The host with only a leading "www." removed.
StripLeadingWww(host) ==
    IF StartsWith(host, Www) THEN SubSeq(host, Len(Www) + 1, Len(host))
    ELSE host

\* C10: the Domain is the URL's host with only a leading "www." removed: a
\* host not starting with "www." is unchanged, and a "www." elsewhere in the
\* host is kept.
C10_DomainOnlyLeadingWww ==
    pc = "done" => domain = StripLeadingWww(netloc(url))

----------------------------------------------------------------------------
(* extract_links (lines 81-95) *)

HrefChars == {" ", "#", ".", "a"}

\* An anchor of the region that carries an href (find_all('a', href=True)):
\* its href, and whether a.find_parent(['nav', 'footer']) finds a parent.
Anchors == [href : SeqsUpTo(HrefChars, MaxHrefLen), nav : BOOLEAN]

HasDot(s) == \E i \in 1..Len(s) : s[i] = "."

\* A mutant of LinksAfter: the nav/footer test is missing.
LinksAfterNoNavTest(ls, a) ==
    LET href == strip(a.href)
    IN  IF StartsWith(href, <<"#">>) THEN ls
        ELSE IF HasDot(href) THEN ls \cup {href}
        ELSE ls

\* One iteration of the for loop: the set `links` after anchor a.
LinksAfter(ls, a) ==
    IF a.nav THEN ls
    ELSE LET href == strip(a.href)
         IN  IF StartsWith(href, <<"#">>) THEN ls
             ELSE IF HasDot(href) THEN ls \cup {href}
             ELSE ls

\* extract_links over the anchors of a region, in document order; the list
\* it returns has the set's elements in no particular order, so the set
\* stands for it.
RECURSIVE LinksOver(_, _)
LinksOver(ls, as) ==
    IF as = <<>> THEN ls ELSE LinksOver(LinksAfter(ls, Head(as)), Tail(as))

extract_links(as) == LinksOver({}, as)

InitLinks ==
    /\ pc = "for"
    /\ seen = <<0, {}>>
    /\ links = {}
    /\ ret = Unused
    /\ url = Unused /\ domain = Unused /\ soup = Unused
    /\ urls = Unused /\ weights = Unused /\ results = Unused /\ df = Unused
    /\ df_norm = Unused

\* The loop visits the region's next anchor (seen counts the visits and
\* collects the anchors visited).
LinksVisit ==
    /\ pc = "for"
    /\ seen[1] < MaxAnchors
    /\ \E a \in Anchors :
        /\ links' = LinksAfter(links, a)
        /\ seen' = <<seen[1] + 1, seen[2] \cup {a}>>
    /\ UNCHANGED <<pc, ret, url, domain, soup, urls, weights, results, df,
                   df_norm>>

\* return list(links)
LinksReturn ==
    /\ pc = "for"
    /\ ret' = links
    /\ pc' = "done"
    /\ UNCHANGED <<seen, links, url, domain, soup, urls, weights, results, df,
                   df_norm>>

NextLinks == LinksVisit \/ LinksReturn

SpecLinks == InitLinks /\ [][NextLinks]_vars

\* C9 as stated: the result is exactly the set of href values of the
\* anchors that are outside nav/footer, do not begin with "#" and contain
\* a ".".
C9_LinksAreRawHrefs ==
    pc = "done" =>
        ret = {a.href : a \in {b \in seen[2] :
                  ~b.nav /\ ~StartsWith(b.href, <<"#">>) /\ HasDot(b.href)}}

\* C9 as amended: the result is exactly the set of whitespace-stripped href
\* values of the anchors that are outside nav/footer and whose stripped href
\* does not begin with "#" and contains a "."; each such value occurs once.
C9_LinksAreStrippedHrefs ==
    pc = "done" =>
        ret = {strip(a.href) : a \in {b \in seen[2] :
                  ~b.nav /\ ~StartsWith(strip(b.href), <<"#">>)
                         /\ HasDot(strip(b.href))}}

\* C9's case: the loop has visited a nav-nested anchor whose href has a dot,
\* which is left out, and an anchor outside nav/footer whose href carries
\* surrounding whitespace, which is returned stripped.
C9_Witness ==
    /\ pc = "done"
    /\ \E a, b \in seen[2] :
        /\ a.nav /\ HasDot(a.href) /\ strip(a.href) \notin ret
        /\ ~b.nav /\ b.href # strip(b.href)
        /\ ret = {strip(b.href)}

----------------------------------------------------------------------------
(* extract_body (lines 40-51) *)

MaxElems == 3

\* The document's elements in document order, each with its tag name and
\* its role attribute; html.parser adds no element the markup lacks.
Elems == [tag : {"main", "article", "div", "body"}, role : {"main", "none"}]

\* Whether an element matches what soup.find is asked for.
Matching(e, what) ==
    CASE what = "main" -> e.tag = "main"
      [] what = "article" -> e.tag = "article"
      [] what = "role=main" -> e.role = "main"
      [] what = "body" -> e.tag = "body"
      [] what = "meta name=author" -> e.attr = "name=author"
      [] what = "meta property=article:author" ->
            e.attr = "property=article:author"

Has(es, what) == \E i \in 1..Len(es) : Matching(es[i], what)

\* soup.find(...): the first element in document order that matches, or None.
find(es, what) ==
    IF Has(es, what)
    THEN [kind |-> "Tag",
          pos |-> CHOOSE i \in 1..Len(es) :
                      /\ Matching(es[i], what)
                      /\ \A j \in 1..(i - 1) : ~Matching(es[j], what)]
    ELSE None

extract_body(sp) ==
    LET main == find(sp.elems, "main")
        article == find(sp.elems, "article")
        role_main == find(sp.elems, "role=main")
    IN  IF main # None THEN main
        ELSE IF article # None THEN article
        ELSE IF role_main # None THEN role_main
        ELSE find(sp.elems, "body")

InitLocate ==
    /\ pc = "extract_body"
    /\ soup \in [elems : SeqsUpTo(Elems, MaxElems)]
    /\ ret = Unused
    /\ url = Unused /\ domain = Unused /\ seen = Unused /\ links = Unused
    /\ urls = Unused /\ weights = Unused /\ results = Unused /\ df = Unused
    /\ df_norm = Unused

Locate ==
    /\ pc = "extract_body"
    /\ ret' = extract_body(soup)
    /\ pc' = "done"
    /\ UNCHANGED <<soup, url, domain, seen, links, urls, weights, results, df,
                   df_norm>>

NextLocate == Locate

SpecLocate == InitLocate /\ [][NextLocate]_vars

\* C6: extract_body never returns a null region: it returns the first
\* <main>, else the first <article>, else the first role="main" element,
\* else the body/root, for every document, also one with none of these.
C6_RegionNeverNull ==
    pc = "done" =>
        /\ ret # None
        /\ Has(soup.elems, "main") => ret = find(soup.elems, "main")
        /\ (~Has(soup.elems, "main") /\ Has(soup.elems, "article"))
              => ret = find(soup.elems, "article")
        /\ (~Has(soup.elems, "main") /\ ~Has(soup.elems, "article")
                                     /\ Has(soup.elems, "role=main"))
              => ret = find(soup.elems, "role=main")

----------------------------------------------------------------------------
(* find_author (lines 62-78) *)

MaxMetas == 2
MaxScripts == 2

\* A value returned, and an exception raised.
Str(v) == [kind |-> "str", value |-> v]
Raise(e) == [kind |-> "raise", exc |-> e]

\* An attribute a tag does not carry (tag.get gives None).
NoAttr == "<no attribute>"

\* The author meta tags of the document, in document order: name="author"
\* or property="article:author", with a content attribute or without.
Metas == [attr : {"name=author", "property=article:author"},
          content : {NoAttr, "", "Meta A", "Meta B"}]

\* The text of a <script type="application/ld+json"> (tag.string, None
\* when the tag has no single string child).
NoString == "<no string>"
JsonTexts ==
    {NoString, "not json", "{}",
     "{\"author\": {\"name\": \"Ld A\"}}", "{\"author\": {\"url\": \"u\"}}",
     "{\"author\": \"Ld B\"}", "{\"author\": [\"Ld C\"]}",
     "[{\"author\": \"Ld D\"}]", "\"Ld E\""}

\* json.loads: the parsed value, or JSONDecodeError.
json_loads(text) ==
    CASE text = "not json" -> Raise("JSONDecodeError")
      [] text = "{}" -> [kind |-> "dict", author |-> None]
      [] text = "{\"author\": {\"name\": \"Ld A\"}}" ->
            [kind |-> "dict", author |-> [kind |-> "dict", name |-> "Ld A"]]
      [] text = "{\"author\": {\"url\": \"u\"}}" ->
            [kind |-> "dict", author |-> [kind |-> "dict", name |-> NoAttr]]
      [] text = "{\"author\": \"Ld B\"}" ->
            [kind |-> "dict", author |-> Str("Ld B")]
      [] text = "{\"author\": [\"Ld C\"]}" ->
            [kind |-> "dict", author |-> [kind |-> "list"]]
      [] text = "[{\"author\": \"Ld D\"}]" -> [kind |-> "list"]
      [] text = "\"Ld E\"" -> Str("Ld E")

\* The text of the first <a rel="author">, stripped, or no such anchor.
NoRelLink == "<no link>"
RelLinks == {NoRelLink, "", "Rel"}

AuthorSoups == [metas : SeqsUpTo(Metas, MaxMetas),
                scripts : SeqsUpTo(JsonTexts, MaxScripts),
                rel : RelLinks]

\* Lines 63-64: Tag.__bool__ is always True, so `or` takes the second find
\* only when the first finds no tag.
AuthorMeta(sp) ==
    LET byName == find(sp.metas, "meta name=author")
    IN  IF byName # None THEN byName
        ELSE find(sp.metas, "meta property=article:author")

\* One pass of the try block (lines 69-74) on a script's text: a value
\* returned, an exception that leaves find_author, or "continue".
Continue == [kind |-> "continue"]

ScriptStep(text) ==
    LET data == json_loads(IF text = NoString THEN "{}" ELSE text)
    IN  IF data.kind = "raise" THEN Continue
        ELSE IF data.kind # "dict" THEN Raise("AttributeError")
        ELSE LET author == data.author
             IN  IF author.kind = "dict" /\ author.name # NoAttr
                 THEN Str(author.name)
                 ELSE IF author.kind = "str" THEN author
                 ELSE Continue

\* The for loop of lines 67-76.
RECURSIVE ScanScripts(_)
ScanScripts(scripts) ==
    IF scripts = <<>> THEN Continue
    ELSE LET r == ScriptStep(Head(scripts))
         IN  IF r = Continue THEN ScanScripts(Tail(scripts)) ELSE r

find_author(sp) ==
    LET meta == AuthorMeta(sp)
        content == IF meta = None THEN NoAttr ELSE sp.metas[meta.pos].content
    IN  IF meta # None /\ content # NoAttr /\ content # ""
        THEN Str(content)
        ELSE LET r == ScanScripts(sp.scripts)
             IN  IF r # Continue THEN r
                 ELSE IF sp.rel # NoRelLink THEN Str(sp.rel) ELSE None

InitAuthor ==
    /\ pc = "find_author"
    /\ soup \in AuthorSoups
    /\ ret = Unused
    /\ url = Unused /\ domain = Unused /\ seen = Unused /\ links = Unused
    /\ urls = Unused /\ weights = Unused /\ results = Unused /\ df = Unused
    /\ df_norm = Unused

FindAuthor ==
    /\ pc = "find_author"
    /\ ret' = find_author(soup)
    /\ pc' = "done"
    /\ UNCHANGED <<soup, url, domain, seen, links, urls, weights, results, df,
                   df_norm>>

NextAuthor == FindAuthor

SpecAuthor == InitAuthor /\ [][NextAuthor]_vars

\* What the stages of the claimed chain find in a document.
MetaContents(sp) ==
    {sp.metas[i].content : i \in 1..Len(sp.metas)} \ {NoAttr, ""}

UsableAuthor(text) ==
    text \in {"{\"author\": {\"name\": \"Ld A\"}}", "{\"author\": \"Ld B\"}"}

LdAuthors(sp) ==
    {ScriptStep(sp.scripts[i]).value :
        i \in {j \in 1..Len(sp.scripts) : UsableAuthor(sp.scripts[j])}}

\* C7: find_author is the chain metadata > structured data > rel=author: a
\* non-empty content of an author or article:author meta tag wins over any
\* structured-data author, a structured-data author wins over a rel=author
\* link, and the result is absent only if all three stages find nothing.
C7_ThreeStageFallback ==
    pc = "done" =>
        /\ MetaContents(soup) # {}
              => ret.kind = "str" /\ ret.value \in MetaContents(soup)
        /\ (MetaContents(soup) = {} /\ LdAuthors(soup) # {})
              => ret.kind = "str" /\ ret.value \in LdAuthors(soup)
        /\ (MetaContents(soup) = {} /\ LdAuthors(soup) = {}
                                    /\ soup.rel # NoRelLink)
              => ret = Str(soup.rel)
        /\ ret = None
              => (MetaContents(soup) = {} /\ LdAuthors(soup) = {}
                                          /\ soup.rel = NoRelLink)

\* C8: malformed structured data never aborts author resolution: whatever
\* the blocks hold (invalid JSON, or JSON that is no object with a usable
\* author), find_author does not raise; it skips the block and goes on to
\* the remaining blocks and the rel=author stage.
C8_MalformedDataNeverRaises ==
    pc = "done" =>
        /\ ret.kind # "raise"
        /\ (MetaContents(soup) = {} /\ LdAuthors(soup) = {})
              => ret = (IF soup.rel # NoRelLink THEN Str(soup.rel) ELSE None)

----------------------------------------------------------------------------
(* Floats: exact rationals, and NaN (pandas' missing cell) *)

RECURSIVE GCD(_, _)
GCD(a, b) == IF b = 0 THEN a ELSE GCD(b, a % b)

NaN == [nan |-> TRUE, n |-> 0, d |-> 1]

Fl(n, d) ==
    LET g == GCD(n, d)
    IN  [nan |-> FALSE, n |-> n \div g, d |-> d \div g]

FAdd(a, b) ==
    IF a.nan \/ b.nan THEN NaN ELSE Fl(a.n * b.d + b.n * a.d, a.d * b.d)

FMul(a, b) ==
    IF a.nan \/ b.nan THEN NaN ELSE Fl(a.n * b.n, a.d * b.d)

\* Series / scalar: pandas raises nothing on a zero divisor; 0/0 is NaN.
\* (The dividends here are at most the divisor, a column's maximum, so no
\* x/0 with x > 0 arises.)
FDiv(a, b) ==
    IF a.nan \/ b.nan THEN NaN
    ELSE IF b.n = 0 THEN NaN
    ELSE Fl(a.n * b.d, a.d * b.n)

----------------------------------------------------------------------------
(* main: the weights (lines 117-129) *)

\* The sliders' values in steps of 0.05, as twentieths:
\* <<relevancy, wordcount, links, sections, author>>.
SliderChoices == {<<8, 4, 4, 2, 2>>, <<0, 0, 0, 0, 0>>, <<0, 20, 0, 0, 0>>}

SliderDen == 20

NormalizeWeights(raw) ==
    LET total == raw[1] + raw[2] + raw[3] + raw[4] + raw[5]
        den == IF total > 0 THEN total ELSE SliderDen
    IN  [w_relevancy |-> Fl(raw[1], den), w_wordcount |-> Fl(raw[2], den),
         w_links |-> Fl(raw[3], den), w_sections |-> Fl(raw[4], den),
         w_author |-> Fl(raw[5], den)]

----------------------------------------------------------------------------
(* main: the per-URL loop (lines 139-165) *)

MaxUrls == 3
MaxWords == 2
RelScale == 1

\* The URLs the user may enter.
UrlPool == {<<Scheme, "/", "/", "w", "w", "w", ".", "a">>,
            <<Scheme, "/", "/", "a", ".", "w", "w", "w", ".", "a", "/">>}

\* What fetch_page gives: an exception, or a page.  A page is its parsed
\* document (elements, author metas, ld+json scripts, rel=author link) and
\* the content of its region: the words of its paragraphs, its headings,
\* its anchors, and the relevancy compute_relevancy gives (in RelScale-ths).
PageElems == {<<[tag |-> "div", role |-> "none"]>>,
              <<[tag |-> "body", role |-> "none"],
                [tag |-> "article", role |-> "none"]>>}

PageAuthors ==
    {[metas |-> <<>>, scripts |-> <<>>, rel |-> NoRelLink],
     [metas |-> <<[attr |-> "name=author", content |-> "Meta A"]>>,
      scripts |-> <<>>, rel |-> NoRelLink],
     [metas |-> <<>>, scripts |-> <<"[{\"author\": \"Ld D\"}]">>,
      rel |-> "Rel"]}

\* What a region holds besides its words: its headings, its anchors, and
\* how relevant its text is to the keyword.
PageContents ==
    {[headings |-> 0, anchors |-> <<>>, relevancy |-> 0],
     [headings |-> 1,
      anchors |-> <<[href |-> <<"a", ".">>, nav |-> FALSE],
                    [href |-> <<"a">>, nav |-> FALSE]>>,
      relevancy |-> RelScale]}

Pages ==
    {[kind |-> "page", elems |-> e, metas |-> a.metas, scripts |-> a.scripts,
      rel |-> a.rel, words |-> w, headings |-> c.headings,
      anchors |-> c.anchors, relevancy |-> c.relevancy] :
        e \in PageElems, a \in PageAuthors, c \in PageContents,
        w \in 0..MaxWords}

Fetched == Pages \cup {Raise("HTTPError")}

ErrorRecord(dom, u, e) == [Domain |-> dom, URL |-> u, Error |-> e]

\* One pass of the loop body: the dict appended to `results`.
Analyze(u, fetched) ==
    LET dom == Domain(u)
    IN  IF fetched.kind = "raise" THEN ErrorRecord(dom, u, fetched.exc)
        ELSE LET body == extract_body(fetched)
                 author == find_author(fetched)
             IN  IF body = None
                 THEN ErrorRecord(dom, u, "AttributeError: NoneType")
                 ELSE IF author.kind = "raise"
                 THEN ErrorRecord(dom, u, author.exc)
                 ELSE [Domain |-> dom, URL |-> u,
                       WordCount |-> fetched.words,
                       Relevancy |-> fetched.relevancy,
                       Sections |-> fetched.headings,
                       AuthorPresent |->
                           IF author.kind = "str" /\ author.value # ""
                           THEN 1 ELSE 0,
                       OutboundLinks |->
                           Cardinality(extract_links(fetched.anchors))]

IsError(rec) == "Error" \in DOMAIN rec

Init ==
    /\ pc = "loop"
    /\ urls \in SeqsUpTo(UrlPool, MaxUrls) \ {<<>>}
    /\ weights \in {NormalizeWeights(raw) : raw \in SliderChoices}
    /\ results = <<>>
    /\ df = Unused
    /\ df_norm = Unused
    /\ url = Unused /\ domain = Unused /\ soup = Unused /\ ret = Unused
    /\ seen = Unused /\ links = Unused

ProcessUrl ==
    /\ pc = "loop"
    /\ Len(results) < Len(urls)
    /\ \E fetched \in Fetched :
        results' = Append(results, Analyze(urls[Len(results) + 1], fetched))
    /\ UNCHANGED <<pc, urls, weights, df, df_norm, url, domain, soup, ret,
                   seen, links>>

----------------------------------------------------------------------------
(* main: the DataFrame and the Overall Score (lines 166-181) *)

Absent == "<NaN>"

NumericColumns ==
    {"Word Count", "Relevancy", "Sections", "Author Present", "Outbound Links"}

\* The keys of a dict of `results`, as column names.
Keys(rec) ==
    IF IsError(rec) THEN {"Domain", "URL", "Error"}
    ELSE {"Domain", "URL"} \cup NumericColumns

\* A row of pd.DataFrame(results): a cell the dict has no key for is NaN.
Row(rec) ==
    [Domain |-> rec.Domain, URL |-> rec.URL,
     WordCount |-> IF IsError(rec) THEN NaN ELSE Fl(rec.WordCount, 1),
     Relevancy |-> IF IsError(rec) THEN NaN ELSE Fl(rec.Relevancy, RelScale),
     Sections |-> IF IsError(rec) THEN NaN ELSE Fl(rec.Sections, 1),
     AuthorPresent |-> IF IsError(rec) THEN NaN ELSE Fl(rec.AuthorPresent, 1),
     OutboundLinks |-> IF IsError(rec) THEN NaN ELSE Fl(rec.OutboundLinks, 1),
     Error |-> IF IsError(rec) THEN rec.Error ELSE Absent,
     OverallScore |-> NaN]

DataFrame(recs) ==
    [columns |-> UNION {Keys(recs[i]) : i \in 1..Len(recs)},
     rows |-> [i \in 1..Len(recs) |-> Row(recs[i])]]

HasNumbers(r) ==
    ~(r.WordCount.nan \/ r.Relevancy.nan \/ r.Sections.nan
        \/ r.AuthorPresent.nan \/ r.OutboundLinks.nan)

\* df.dropna(subset=[the five numeric columns]), the columns being there.
dropna(rows) == SelectSeq(rows, HasNumbers)

\* Series.max() of a column without NaN.
Max(S) == CHOOSE m \in S : \A x \in S : x <= m

Cell(r, column) ==
    CASE column = "Word Count" -> r.WordCount
      [] column = "Sections" -> r.Sections
      [] column = "Outbound Links" -> r.OutboundLinks

ColumnMax(rows, column) ==
    Fl(Max({Cell(rows[i], column).n : i \in 1..Len(rows)}), 1)

\* Lines 170-180: the three columns divided by their maxima, and the score.
Normalize(clean, w) ==
    LET mw == ColumnMax(clean, "Word Count")
        ms == ColumnMax(clean, "Sections")
        ml == ColumnMax(clean, "Outbound Links")
        Norm(r) == [r EXCEPT !.WordCount = FDiv(r.WordCount, mw),
                             !.Sections = FDiv(r.Sections, ms),
                             !.OutboundLinks = FDiv(r.OutboundLinks, ml)]
        Score(r) ==
            FAdd(FAdd(FAdd(FAdd(FMul(r.Relevancy, w.w_relevancy),
                                FMul(r.WordCount, w.w_wordcount)),
                           FMul(r.OutboundLinks, w.w_links)),
                      FMul(r.Sections, w.w_sections)),
                 FMul(r.AuthorPresent, w.w_author))
    IN  [i \in 1..Len(clean) |->
            [Norm(clean[i]) EXCEPT !.OverallScore = Score(Norm(clean[i]))]]

\* The rows of `right` whose URL is u, in order.
RECURSIVE Matches(_, _)
Matches(right, u) ==
    IF right = <<>> THEN <<>>
    ELSE (IF Head(right).URL = u THEN <<Head(right)>> ELSE <<>>)
             \o Matches(Tail(right), u)

\* df.merge(df_norm[['URL', 'Overall Score']], on='URL', how='left'): the
\* left rows in order, each once per right row of its URL, and once with a
\* NaN score when there is none.
RECURSIVE merge(_, _)
merge(left, right) ==
    IF left = <<>> THEN <<>>
    ELSE LET r == Head(left)
             ms == Matches(right, r.URL)
         IN  (IF ms = <<>> THEN <<r>>
              ELSE [j \in 1..Len(ms) |->
                       [r EXCEPT !.OverallScore = ms[j].OverallScore]])
                 \o merge(Tail(left), right)

\* Lines 166-181, after the loop.  With no successful record the table has
\* none of the numeric columns and dropna raises KeyError, which leaves main.
Aggregate ==
    /\ pc = "loop"
    /\ Len(results) = Len(urls)
    /\ LET frame == DataFrame(results)
       IN  IF ~(NumericColumns \subseteq frame.columns)
           THEN /\ pc' = "KeyError"
                /\ df' = frame
                /\ df_norm' = df_norm
           ELSE LET clean == dropna(frame.rows)
                    norm == Normalize(clean, weights)
                IN  /\ pc' = "display"
                    /\ df_norm' = norm
                    /\ df' = [columns |-> frame.columns \cup {"Overall Score"},
                              rows |-> merge(frame.rows, norm)]
    /\ UNCHANGED <<urls, weights, results, url, domain, soup, ret, seen, links>>

\* Lines 182-188: the table, and the chart by domain, are shown.
Display ==
    /\ pc = "display"
    /\ pc' = "done"
    /\ UNCHANGED <<urls, weights, results, df, df_norm, url, domain, soup, ret,
                   seen, links>>

Next == ProcessUrl \/ Aggregate \/ Display

Spec == Init /\ [][Next]_vars

Succeeded(rec) == ~IsError(rec)

Finished == pc \in {"display", "done"}

\* C1: failure isolation: whichever URLs fail, the loop processes every URL;
\* each failed URL's record has Error and no numeric field and no Overall
\* Score, and each successful URL's record has the five numeric fields, no
\* Error, and an Overall Score.
C1_FailureIsolation ==
    /\ (pc # "loop") =>
          /\ Len(results) = Len(urls)
          /\ \A i \in 1..Len(urls) : results[i].URL = urls[i]
    /\ Finished =>
          \A i \in 1..Len(df.rows) :
              LET r == df.rows[i]
              IN  IF r.Error # Absent
                  THEN ~HasNumbers(r) /\ r.OverallScore.nan
                  ELSE HasNumbers(r) /\ ~r.OverallScore.nan

\* C2: the final table has exactly one record per input URL, in input
\* order, repeated URLs included: n records, the i-th with the i-th URL.
C2_OneRecordPerUrlInOrder ==
    pc = "done" =>
        /\ Len(df.rows) = Len(urls)
        /\ \A i \in 1..Len(urls) : df.rows[i].URL = urls[i]

\* C3: when every URL of the batch fails, the aggregation does not fail: the
\* run completes, with one error record per URL and no Overall Score.
C3_AllFailedBatchCompletes ==
    (/\ Len(results) = Len(urls)
     /\ \A i \in 1..Len(results) : IsError(results[i]))
        => /\ pc # "KeyError"
           /\ pc = "done" =>
                 /\ Len(df.rows) = Len(urls)
                 /\ \A i \in 1..Len(df.rows) :
                        df.rows[i].Error # Absent /\ df.rows[i].OverallScore.nan

\* The normalized value the specification defines: v / max, and 0 when the
\* maximum is 0.
DefinedNorm(v, m) == IF m = 0 THEN Fl(0, 1) ELSE Fl(v, m)

\* C4: Word Count, Sections and Outbound Links of each successful record
\* are divided by the maximum over the successful records, and a metric
\* whose maximum is 0 normalizes to 0 for every successful record.
C4_NormalizedByMaxZeroSafe ==
    Finished =>
        LET clean == SelectSeq(results, Succeeded)
            mw == Max({clean[j].WordCount : j \in 1..Len(clean)})
            ms == Max({clean[j].Sections : j \in 1..Len(clean)})
            ml == Max({clean[j].OutboundLinks : j \in 1..Len(clean)})
        IN  /\ Len(df_norm) = Len(clean)
            /\ \A j \in 1..Len(clean) :
                  /\ df_norm[j].WordCount = DefinedNorm(clean[j].WordCount, mw)
                  /\ df_norm[j].Sections = DefinedNorm(clean[j].Sections, ms)
                  /\ df_norm[j].OutboundLinks
                         = DefinedNorm(clean[j].OutboundLinks, ml)

\* C5: with all five weights zero the Overall Score of every successful
\* record is 0, whatever the metric values (a metric's maximum may be 0).
C5_ZeroWeightsScoreZero ==
    (Finished /\ weights = NormalizeWeights(<<0, 0, 0, 0, 0>>)) =>
        \A i \in 1..Len(df.rows) :
            df.rows[i].Error = Absent => df.rows[i].OverallScore = Fl(0, 1)

====
